---- MODULE Spec2Model ----
(***************************************************************************)
(* Model of perf_amx.cc: the AMX benchmark driver (class Benchmark), the   *)
(* two sweeps (run_bench_sq_matrix, run_bench_rect_matrix) and main.       *)
(*                                                                         *)
(* Unsigned 64-bit values are sequences of eight base-256 limbs, least     *)
(* significant first, so that products wrap exactly as uint64_t does.      *)
(* A double that holds an integer is kept as the integer it holds (a limb  *)
(* sequence of WideLimbs limbs), after rounding to a 53-bit significand.   *)
(***************************************************************************)
EXTENDS Integers, Sequences, FiniteSets, TLC

\* --------------------------------------------------------------- bounds

\* Limbs of the exact (unbounded) arithmetic the claims compare against.
WideLimbs == 16
\* Operations issued on one Benchmark object by the driver harness.
MaxOps == 4
\* Worker threads of the OpenMP team in the fill harness.
MaxThreads == 2
\* Largest matrix dimension in the fill harness.
MaxDim == 2

\* ----------------------------------------------- fixed-width arithmetic

\* uint64_t is eight 8-bit limbs.
U64Limbs == 8

\* int, as sizeof(bf16) is multiplied in: bf16 is two bytes.
SizeofBf16 == 2

\* Significand width of an IEEE-754 double.
DoubleBits == 53

Limb(a, i) == IF i <= Len(a) THEN a[i] ELSE 0

RECURSIVE Carry(_, _, _)
\* Column sums to limbs: carries run upwards from position i, the carry
\* out of the top column is dropped (arithmetic modulo 256^Len(cols)).
Carry(cols, c, i) ==
  IF i > Len(cols) THEN <<>>
  ELSE <<(cols[i] + c) % 256>> \o Carry(cols, (cols[i] + c) \div 256, i + 1)

\* The k-limb value of a natural number n < 2^31.
FromInt(n, k) == Carry([i \in 1..k |-> IF i = 1 THEN n ELSE 0], 0, 1)

\* x zero-extended or truncated to k limbs.
Ext(x, k) == [i \in 1..k |-> Limb(x, i)]

RECURSIVE ColSum(_, _, _, _)
ColSum(a, b, i, p) ==
  IF p > i THEN 0
  ELSE Limb(a, p) * Limb(b, i + 1 - p) + ColSum(a, b, i, p + 1)

\* a * b modulo 256^k.
MulK(a, b, k) == Carry([i \in 1..k |-> ColSum(a, b, i, 1)], 0, 1)

\* a + b modulo 256^k.
AddK(a, b, k) == Carry([i \in 1..k |-> Limb(a, i) + Limb(b, i)], 0, 1)

\* a - b modulo 256^k (two's complement: a + ~b + 1).
SubK(a, b, k) ==
  Carry([i \in 1..k |-> Limb(a, i) + (255 - Limb(b, i)) + (IF i = 1 THEN 1 ELSE 0)],
        0, 1)

IsZero(a) == \A i \in 1..Len(a) : a[i] = 0

\* A 32-bit product widened afterwards (uint32_t operands).
U64MulNarrow(a, b) == Ext(MulK(a, b, 4), U64Limbs)

\* uint64_t arithmetic.
U64(n) == FromInt(n, U64Limbs)

U64Mul(a, b) == MulK(a, b, U64Limbs)
U64Sub(a, b) == SubK(a, b, U64Limbs)

\* Exact arithmetic (no wrap for the operand ranges used).
Wide(n) == FromInt(n, WideLimbs)
WMul(a, b) == MulK(a, b, WideLimbs)
WAdd(a, b) == AddK(a, b, WideLimbs)
WEq(a, b) == Ext(a, WideLimbs) = Ext(b, WideLimbs)

\* ------------------------------------------------------------- doubles

\* Bit i (from 0) of a limb sequence.
Bit(x, i) == (Limb(x, (i \div 8) + 1) \div (2 ^ (i % 8))) % 2

\* Number of significant bits of x.
NBits(x) ==
  LET S == {i \in 0..(8 * Len(x) - 1) : Bit(x, i) = 1}
  IN IF S = {} THEN 0 ELSE (CHOOSE i \in S : \A k \in S : k <= i) + 1

\* x with its s low bits cleared.
ClearLow(x, s) ==
  [i \in 1..Len(x) |->
     LET lo == 8 * (i - 1)
     IN IF lo + 8 <= s THEN 0
        ELSE IF lo >= s THEN x[i]
        ELSE x[i] - (x[i] % (2 ^ (s - lo)))]

\* 2^s as WideLimbs limbs.
Pow2(s) == [i \in 1..WideLimbs |-> IF i = (s \div 8) + 1 THEN 2 ^ (s % 8) ELSE 0]

\* (double)x for an unsigned integer x: the nearest value with a 53-bit
\* significand, ties to even.
ToDouble(x) ==
  LET w == Ext(x, WideLimbs)
      s == NBits(w) - DoubleBits
  IN IF s <= 0 THEN w
     ELSE LET guard == Bit(w, s - 1) = 1
              sticky == \E i \in 0..(s - 2) : Bit(w, i) = 1
              odd == Bit(w, s) = 1
          IN IF guard /\ (sticky \/ odd)
             THEN WAdd(ClearLow(w, s), Pow2(s))
             ELSE ClearLow(w, s)

\* An integer-valued double: sign and magnitude.
DInt(neg, mag) == [kind |-> "int", neg |-> neg, mag |-> mag]

\* (double)x for uint64_t x.
U64ToDouble(x) == DInt(FALSE, ToDouble(x))

\* (double)d for a signed integer d (int, int64_t).
I64ToDouble(d) == IF d < 0 THEN DInt(TRUE, ToDouble(Wide(0 - d)))
                  ELSE DInt(FALSE, ToDouble(Wide(d)))

\* a + b for two non-negative integer-valued doubles: the exact sum, rounded.
DAdd(a, b) == DInt(FALSE, ToDouble(WAdd(a.mag, b.mag)))

\* a / b for integer-valued doubles.  x/0 is an infinity, 0/0 a NaN; any
\* other quotient is kept as the ratio it rounds (the rounding of the
\* quotient itself is below the precision of this model).
DDiv(a, b) ==
  IF IsZero(b.mag)
  THEN IF IsZero(a.mag) THEN [kind |-> "nan"]
       ELSE [kind |-> "inf", neg |-> a.neg]
  ELSE [kind |-> "ratio", neg |-> (a.neg # b.neg) /\ ~IsZero(a.mag),
        num |-> a.mag, den |-> b.mag]

\* ------------------------------------------------------------- strings

Digit == <<"0", "1", "2", "3", "4", "5", "6", "7", "8", "9">>

RECURSIVE to_string(_)
\* std::to_string of an unsigned value: its decimal digits.
to_string(n) ==
  IF n < 10 THEN <<Digit[n + 1]>>
  ELSE to_string(n \div 10) \o <<Digit[(n % 10) + 1]>>

\* The "N1/N2/M" column.
DimsString(N1, N2, M) ==
  to_string(N1) \o <<"/">> \o to_string(N2) \o <<"/">> \o to_string(M)

\* --------------------------------------------------------------- state

VARIABLES
  pc,       \* position of the thread of control
  argv,     \* main: the command line
  debug,    \* main: the local the option parser writes
  bench,    \* the Benchmark object: engine, stream, pt (rows of the table), debug
  created,  \* every execution context (engine, stream) constructed so far
  out,      \* std::cout: the tables printed so far, each a sequence of rows
  calls,    \* log of the kernel invocations made so far
  kdur,     \* what the kernel returns (its measured duration, ns)
  i, j,     \* loop positions of the sweeps
  ops,      \* operations issued by the driver harness
  cfg,      \* the (N1, N2, M) under test in the single-run harness
  par       \* the parallel row fill: team, shared generator, buffers

vars == <<pc, argv, debug, bench, created, out, calls, kdur, i, j, ops, cfg, par>>

\* Durations the kernel may report: dist.hpp gives an int64_t and promises
\* nothing about its sign.  The kernel is opaque; a run of the program is
\* taken on a machine where it reports one of these throughout (kdur).
KernelDurations == {0 - 1, 0, 7}

\* Command lines: no option, or the option with a value.
CommandLines == {<<>>, <<"-d", "1">>, <<"--debug", "1">>, <<"-d", "0">>}

NoBench == [engine |-> 0, stream |-> 0, pt |-> <<>>, debug |-> FALSE]

NoPar == [phase |-> "off"]

\* ------------------------------------------------------------ Benchmark

\* A constructor that leaves its engine and stream members default-made.
BenchmarkDropsContext(engine, stream, d) ==
  [engine |-> 0, stream |-> 0, pt |-> <<>>, debug |-> d]

\* Benchmark::Benchmark: engine and stream are stored, pt is a fresh empty
\* table; the member debug has no initializer and is not assigned, so it
\* holds an indeterminate value d.
Benchmark(engine, stream, d) ==
  [engine |-> engine, stream |-> stream, pt |-> <<>>, debug |-> d]

\* dnnl::engine engine(cpu, 0); dnnl::stream stream(engine): a new context.
NewContext(cs) == [engine |-> Len(cs) + 1, stream |-> Len(cs) + 1]

\* print_results with its two statements in the other order: the fresh
\* table is what gets printed.
print_results_resets_first ==
  /\ out' = Append(out, <<>>)
  /\ bench' = [bench EXCEPT !.pt = <<>>]

\* print_results without the fresh table: the rows stay.
print_results_keeps_rows ==
  /\ out' = Append(out, bench.pt)
  /\ bench' = bench

\* Benchmark::print_results: the table goes to std::cout and pt is replaced
\* by a fresh table.
print_results ==
  /\ out' = Append(out, bench.pt)
  /\ bench' = [bench EXCEPT !.pt = <<>>]

\* calc_data_size.
calc_data_size(N1, N2, M) ==
  DDiv(DAdd(U64ToDouble(U64Mul(U64Mul(U64(N1), U64(M)), U64(SizeofBf16))),
            U64ToDouble(U64Mul(U64Mul(U64(N2), U64(M)), U64(SizeofBf16)))),
       I64ToDouble(2 * (2 ^ 19)))

\* The operation count without the "- 1".
TotalFlopNoMinusOne(N1, N2, M) ==
  U64Mul(U64Mul(U64(N1), U64(N2)), U64Mul(U64(2), U64(M)))

\* uint64_t total_flop = (N1 * N2) * (2 * M - 1);
TotalFlop(N1, N2, M) ==
  U64Mul(U64Mul(U64(N1), U64(N2)),
         U64Sub(U64Mul(U64(2), U64(M)), U64(1)))

\* One row of the table: addRow converts the three numbers to double.
Row(mode, N1, N2, M, dur) ==
  [mode |-> mode,
   dims |-> DimsString(N1, N2, M),
   data_size |-> calc_data_size(N1, N2, M),
   total_flop |-> U64ToDouble(TotalFlop(N1, N2, M)),
   dur |-> I64ToDouble(dur),
   gflops |-> DDiv(U64ToDouble(TotalFlop(N1, N2, M)), I64ToDouble(dur))]

\* The kernel invocation: what the kernel is handed.
Call(fn, N1, N2, M, lenA, lenB) ==
  [fn |-> fn, N1 |-> N1, N2 |-> N2, M |-> M, lenA |-> lenA, lenB |-> lenB,
   engine |-> bench.engine, stream |-> bench.stream, debug |-> bench.debug]

\* Benchmark::run_ip.  The buffers are kept by their lengths (allocation is
\* taken to succeed); their filling is modelled on small matrices by the
\* fill actions below.
run_ip(N1, N2, M, dur) ==
  /\ calls' = Append(calls, Call("amx_inner_product", N1, N2, M,
                                 U64Mul(U64(N1), U64(M)), U64Mul(U64(N2), U64(M))))
  /\ bench' = [bench EXCEPT !.pt = Append(@, Row("IP / AMX", N1, N2, M, dur))]

\* Benchmark::run_gemm.
run_gemm(N1, N2, M, dur) ==
  /\ calls' = Append(calls, Call("amx_matmul", N1, N2, M,
                                 U64Mul(U64(N1), U64(M)), U64Mul(U64(M), U64(N2))))
  /\ bench' = [bench EXCEPT !.pt = Append(@, Row("GEMM / AMX", N1, N2, M, dur))]

\* ---------------------------------------------------------------- main

sizes == <<64, 128, 256, 512, 1024, 2048, 4096, 8192, 16384, 32768>>

n1s == <<32, 64, 128, 256, 512, 1024, 2048, 4096, 8192, 16384, 32768>>

n2_multipliers == <<1, 2, 4, 8>>

n2_base == 1024 * 1024

m == 1024

\* bool debug = 0; add_option("-d,--debug", debug); CLI11_PARSE.
ParseDebug(av) == IF av = <<>> THEN FALSE ELSE av[2] = "1"

Init ==
  /\ pc = "parse"
  /\ argv \in CommandLines
  /\ debug = FALSE
  /\ bench = NoBench
  /\ created = <<>>
  /\ out = <<>>
  /\ calls = <<>>
  /\ kdur \in KernelDurations
  /\ i = 1
  /\ j = 1
  /\ ops = 0
  /\ cfg = <<1, 1, 1>>
  /\ par = NoPar

Parse ==
  /\ pc = "parse"
  /\ debug' = ParseDebug(argv)
  /\ pc' = "sq_construct"
  /\ UNCHANGED <<argv, bench, created, out, calls, kdur, i, j, ops, cfg, par>>

\* run_bench_sq_matrix: engine, stream, bench.
SqConstruct ==
  /\ pc = "sq_construct"
  /\ \E d \in BOOLEAN :
       bench' = Benchmark(NewContext(created).engine, NewContext(created).stream, d)
  /\ created' = Append(created, NewContext(created))
  /\ i' = 1
  /\ pc' = "sq_ip"
  /\ UNCHANGED <<argv, debug, out, calls, kdur, j, ops, cfg, par>>

\* One step of the first for_each, and print_results after the last.
SqRunIp ==
  /\ pc = "sq_ip"
  /\ i <= Len(sizes)
  /\ run_ip(sizes[i], sizes[i], sizes[i], kdur)
  /\ i' = i + 1
  /\ UNCHANGED <<pc, argv, debug, created, out, kdur, j, ops, cfg, par>>

SqPrintIp ==
  /\ pc = "sq_ip"
  /\ i > Len(sizes)
  /\ print_results
  /\ i' = 1
  /\ pc' = "sq_gemm"
  /\ UNCHANGED <<argv, debug, created, calls, kdur, j, ops, cfg, par>>

SqRunGemm ==
  /\ pc = "sq_gemm"
  /\ i <= Len(sizes)
  /\ run_gemm(sizes[i], sizes[i], sizes[i], kdur)
  /\ i' = i + 1
  /\ UNCHANGED <<pc, argv, debug, created, out, kdur, j, ops, cfg, par>>

SqPrintGemm ==
  /\ pc = "sq_gemm"
  /\ i > Len(sizes)
  /\ print_results
  /\ pc' = "rect_construct"
  /\ UNCHANGED <<argv, debug, created, calls, kdur, i, j, ops, cfg, par>>

\* run_bench_rect_matrix: engine, stream, bench.
RectConstruct ==
  /\ pc = "rect_construct"
  /\ \E d \in BOOLEAN :
       bench' = Benchmark(NewContext(created).engine, NewContext(created).stream, d)
  /\ created' = Append(created, NewContext(created))
  /\ i' = 1
  /\ j' = 1
  /\ pc' = "rect_ip"
  /\ UNCHANGED <<argv, debug, out, calls, kdur, ops, cfg, par>>

\* The two for_each nested the other way round: N1 cycles fastest.
RectRunIpN1Minor ==
  /\ pc = "rect_ip"
  /\ i <= Len(n1s)
  /\ run_ip(n1s[i], n2_base * n2_multipliers[j], m, kdur)
  /\ IF i < Len(n1s) THEN i' = i + 1 /\ j' = j
     ELSE IF j < Len(n2_multipliers) THEN i' = 1 /\ j' = j + 1
     ELSE i' = i + 1 /\ j' = j
  /\ UNCHANGED <<pc, argv, debug, created, out, kdur, ops, cfg, par>>

\* One step of the inner for_each; the outer one advances after the last
\* multiplier.
RectRunIp ==
  /\ pc = "rect_ip"
  /\ i <= Len(n1s)
  /\ run_ip(n1s[i], n2_base * n2_multipliers[j], m, kdur)
  /\ IF j < Len(n2_multipliers)
     THEN j' = j + 1 /\ i' = i
     ELSE j' = 1 /\ i' = i + 1
  /\ UNCHANGED <<pc, argv, debug, created, out, kdur, ops, cfg, par>>

RectPrint ==
  /\ pc = "rect_ip"
  /\ i > Len(n1s)
  /\ print_results
  /\ pc' = "done"
  /\ UNCHANGED <<argv, debug, created, calls, kdur, i, j, ops, cfg, par>>

Next ==
  \/ Parse
  \/ SqConstruct
  \/ SqRunIp
  \/ SqPrintIp
  \/ SqRunGemm
  \/ SqPrintGemm
  \/ RectConstruct
  \/ RectRunIp
  \/ RectPrint

Spec == Init /\ [][Next]_vars

\* ------------------------------------------- reading the printed tables

DigitValue(c) == CHOOSE d \in 0..9 : Digit[d + 1] = c

RECURSIVE ParseFrom(_, _, _, _)
ParseFrom(s, k, cur, done) ==
  IF k > Len(s) THEN Append(done, cur)
  ELSE IF s[k] = "/" THEN ParseFrom(s, k + 1, 0, Append(done, cur))
  ELSE ParseFrom(s, k + 1, 10 * cur + DigitValue(s[k]), done)

\* <<N1, N2, M>> as read back from a row's "N1/N2/M" column.
ParseDims(s) == ParseFrom(s, 1, 0, <<>>)

\* The mathematical values, in arithmetic wide enough never to wrap.
ExactFlop(N1, N2, M) == WMul(WMul(Wide(N1), Wide(N2)), Wide(2 * M - 1))

ExactBytes(N1, N2, M) ==
  WAdd(WMul(WMul(Wide(N1), Wide(M)), Wide(2)),
       WMul(WMul(Wide(N2), Wide(M)), Wide(2)))

\* Every row printed or pending.
RECURSIVE Flatten(_)
Flatten(tables) ==
  IF tables = <<>> THEN <<>> ELSE Head(tables) \o Flatten(Tail(tables))

AllRows == Flatten(out) \o bench.pt

SquareReturned == pc \in {"rect_construct", "rect_ip", "done"}

\* ------------------------------------------------------ claims under Spec

\* C1: the square-matrix sweep prints exactly two tables; the first holds
\* exactly 10 inner-product rows, the second exactly 10 matrix-multiply
\* rows (and no inner-product row), row k of each with N1 = N2 = M = the
\* k-th of 64, 128, ..., 32768; each configuration runs once per mode.
C1_SquareSweep ==
  LET want == <<64, 128, 256, 512, 1024, 2048, 4096, 8192, 16384, 32768>>
  IN /\ pc \in {"parse", "sq_construct", "sq_ip"} => out = <<>>
     /\ pc = "sq_gemm" => Len(out) = 1
     /\ pc = "rect_construct" => Len(out) = 2
     /\ SquareReturned =>
          /\ Len(out) >= 2
          /\ Len(out[1]) = 10
          /\ Len(out[2]) = 10
          /\ \A k \in 1..10 :
               /\ out[1][k].mode = "IP / AMX"
               /\ out[2][k].mode = "GEMM / AMX"
               /\ ParseDims(out[1][k].dims) = <<want[k], want[k], want[k]>>
               /\ ParseDims(out[2][k].dims) = <<want[k], want[k], want[k]>>
               /\ calls[k].fn = "amx_inner_product"
               /\ calls[10 + k].fn = "amx_matmul"
               /\ <<calls[k].N1, calls[k].N2, calls[k].M>> = <<want[k], want[k], want[k]>>
               /\ <<calls[10 + k].N1, calls[10 + k].N2, calls[10 + k].M>>
                    = <<want[k], want[k], want[k]>>
          /\ pc = "rect_construct" => Len(calls) = 20

C1_Witness ==
  /\ pc = "rect_construct"
  /\ Len(out) = 2
  /\ Len(out[2]) = 10
  /\ out[2][10].dims = <<"3", "2", "7", "6", "8", "/", "3", "2", "7", "6", "8",
                         "/", "3", "2", "7", "6", "8">>

\* C2: the rectangular sweep prints exactly one table, of exactly 44
\* inner-product rows, each with M = 1024; the row at position 4*i + j has
\* N1 = the i-th of 32, ..., 32768 and N2 = 1048576 * the j-th of 1, 2, 4, 8.
C2_RectSweep ==
  LET wantN1 == <<32, 64, 128, 256, 512, 1024, 2048, 4096, 8192, 16384, 32768>>
      wantMul == <<1, 2, 4, 8>>
      table == IF pc = "done" THEN out[3] ELSE bench.pt
  IN /\ pc = "rect_ip" => Len(out) = 2 /\ Len(calls) = 20 + Len(bench.pt)
     /\ pc = "done" => Len(out) = 3 /\ Len(out[3]) = 44 /\ Len(calls) = 64
     /\ pc \in {"rect_ip", "done"} =>
          \A a \in 0..10 : \A b \in 0..3 :
            4 * a + b + 1 <= Len(table) =>
              LET row == table[4 * a + b + 1]
                  call == calls[20 + 4 * a + b + 1]
                  dims == <<wantN1[a + 1], 1048576 * wantMul[b + 1], 1024>>
              IN /\ row.mode = "IP / AMX"
                 /\ ParseDims(row.dims) = dims
                 /\ call.fn = "amx_inner_product"
                 /\ <<call.N1, call.N2, call.M>> = dims

C2_Witness ==
  /\ pc = "done"
  /\ Len(out) = 3
  /\ ParseDims(out[3][44].dims) = <<32768, 8388608, 1024>>
  /\ ParseDims(out[3][2].dims) = <<32, 2097152, 1024>>

\* C6 (as claimed): the debug flag handed to every kernel invocation equals
\* the value of the --debug / -d option, and is false when it is not given.
C6_DebugReachesKernel ==
  \A k \in 1..Len(calls) :
    /\ calls[k].debug = debug
    /\ argv = <<>> => calls[k].debug = FALSE

C10_NoWrapInMain ==
  bench.pt = <<>> =>
    /\ \A k \in 1..Len(calls) :
         /\ WEq(calls[k].lenA, WMul(Wide(calls[k].N1), Wide(calls[k].M)))
         /\ WEq(calls[k].lenB, WMul(Wide(calls[k].N2), Wide(calls[k].M)))
    /\ Len(Flatten(out)) = Len(calls)
    /\ \A k \in 1..Len(Flatten(out)) :
         LET row == Flatten(out)[k]
             d == ParseDims(row.dims)
         IN /\ d = <<calls[k].N1, calls[k].N2, calls[k].M>>
            /\ row.total_flop.mag = ExactFlop(d[1], d[2], d[3])
            /\ row.data_size.kind = "ratio"
            /\ row.data_size.num = ExactBytes(d[1], d[2], d[3])
            /\ row.data_size.den = Wide(1048576)

C10_Witness ==
  /\ pc = "done"
  /\ Len(AllRows) = 64
  /\ ParseDims(AllRows[64].dims) = <<32768, 8388608, 1024>>
  /\ ParseDims(AllRows[20].dims) = <<32768, 32768, 32768>>
  /\ AllRows[20].total_flop.mag = ExactFlop(32768, 32768, 32768)

\* ------------------------------------------------------ driver harness
\* Any sequence of at most MaxOps run_ip / run_gemm / print_results calls
\* on one Benchmark object.

DriverConfigs == {<<2, 3, 4>>, <<1, 1, 1>>}

InitDriver ==
  /\ pc = "driver"
  /\ argv = <<>>
  /\ debug = FALSE
  /\ created = <<NewContext(<<>>)>>
  /\ \E d \in BOOLEAN :
       bench = Benchmark(NewContext(<<>>).engine, NewContext(<<>>).stream, d)
  /\ out = <<>>
  /\ calls = <<>>
  /\ kdur \in KernelDurations
  /\ i = 1
  /\ j = 1
  /\ ops = 0
  /\ cfg = <<1, 1, 1>>
  /\ par = NoPar

DrvRunIp ==
  /\ pc = "driver"
  /\ ops < MaxOps
  /\ \E c \in DriverConfigs : run_ip(c[1], c[2], c[3], kdur)
  /\ ops' = ops + 1
  /\ UNCHANGED <<pc, argv, debug, created, out, kdur, i, j, cfg, par>>

DrvRunGemm ==
  /\ pc = "driver"
  /\ ops < MaxOps
  /\ \E c \in DriverConfigs : run_gemm(c[1], c[2], c[3], kdur)
  /\ ops' = ops + 1
  /\ UNCHANGED <<pc, argv, debug, created, out, kdur, i, j, cfg, par>>

DrvPrint ==
  /\ pc = "driver"
  /\ ops < MaxOps
  /\ print_results
  /\ ops' = ops + 1
  /\ UNCHANGED <<pc, argv, debug, created, calls, kdur, i, j, cfg, par>>

NextDriver ==
  \/ DrvRunIp
  \/ DrvRunGemm
  \/ DrvPrint

SpecDriver == InitDriver /\ [][NextDriver]_vars

ModeOf(fn) == IF fn = "amx_inner_product" THEN "IP / AMX" ELSE "GEMM / AMX"

\* Row k of whatever has been printed or is pending is the row of the
\* k-th run.
RowsFollowRuns ==
  /\ Len(AllRows) = Len(calls)
  /\ \A k \in 1..Len(calls) :
       /\ AllRows[k].mode = ModeOf(calls[k].fn)
       /\ ParseDims(AllRows[k].dims) = <<calls[k].N1, calls[k].N2, calls[k].M>>

\* A step that prints: the printed table is exactly the pending rows, in
\* their order, and no row is pending afterwards.  A step that runs: one
\* row more is pending and nothing is printed.
PrintOrRunStep ==
  /\ out' # out => out' = Append(out, bench.pt) /\ bench'.pt = <<>>
  /\ out' = out => Len(bench'.pt) = Len(bench.pt) + 1
                   /\ SubSeq(bench'.pt, 1, Len(bench.pt)) = bench.pt

\* C4: print_results renders exactly the rows appended since the previous
\* print_results (or since construction), in the order they were appended,
\* and leaves the table empty; so over any sequence of runs and prints no
\* row is rendered twice, and a print with nothing appended since the last
\* one renders an empty table and is always possible.
C4_PrintAndReset ==
  /\ [](RowsFollowRuns /\ (ops < MaxOps => ENABLED DrvPrint))
  /\ [][PrintOrRunStep]_vars

C4_Witness ==
  /\ Len(out) = 2
  /\ Len(out[1]) = 2
  /\ out[1][1].mode = "GEMM / AMX"
  /\ out[1][2].mode = "IP / AMX"
  /\ out[2] = <<>>
  /\ bench.pt = <<>>

\* -------------------------------------------------- single-run harness
\* One run_ip or run_gemm on a fresh Benchmark with drawn dimensions and a
\* drawn kernel duration, then print_results.

CalcN1 == {1, 2, 134217729, 1073741824}

CalcN2 == {1, 3, 134217729, 1073741824}

CalcM == {0, 1, 4, 8, 9}

InitCalc ==
  /\ pc = "calc"
  /\ argv = <<>>
  /\ debug = FALSE
  /\ created = <<NewContext(<<>>)>>
  /\ \E d \in BOOLEAN :
       bench = Benchmark(NewContext(<<>>).engine, NewContext(<<>>).stream, d)
  /\ out = <<>>
  /\ calls = <<>>
  /\ kdur \in KernelDurations
  /\ i = 1
  /\ j = 1
  /\ ops = 0
  /\ cfg \in CalcN1 \X CalcN2 \X CalcM
  /\ par = NoPar

CalcRunIp ==
  /\ pc = "calc"
  /\ run_ip(cfg[1], cfg[2], cfg[3], kdur)
  /\ pc' = "calc_ran"
  /\ UNCHANGED <<argv, debug, created, out, kdur, i, j, ops, cfg, par>>

CalcRunGemm ==
  /\ pc = "calc"
  /\ run_gemm(cfg[1], cfg[2], cfg[3], kdur)
  /\ pc' = "calc_ran"
  /\ UNCHANGED <<argv, debug, created, out, kdur, i, j, ops, cfg, par>>

CalcPrint ==
  /\ pc = "calc_ran"
  /\ print_results
  /\ pc' = "calc_done"
  /\ UNCHANGED <<argv, debug, created, calls, kdur, i, j, ops, cfg, par>>

NextCalc ==
  \/ CalcRunIp
  \/ CalcRunGemm
  \/ CalcPrint

SpecCalc == InitCalc /\ [][NextCalc]_vars

Positive(c) == c[1] > 0 /\ c[2] > 0 /\ c[3] > 0

\* C3 (as claimed): for all positive (N1, N2, M) the total_flop put in the
\* result row equals N1 * N2 * (2*M - 1).
C3_FlopForAllPositive ==
  \A k \in 1..Len(AllRows) :
    Positive(cfg) => AllRows[k].total_flop.mag = ExactFlop(cfg[1], cfg[2], cfg[3])

\* C3 (amended): for all positive (N1, N2, M) whose N1 * N2 * (2*M - 1) is
\* below 2^64 and exactly representable as a double (every value below
\* 2^53 is), the total_flop put in the result row equals
\* N1 * N2 * (2*M - 1); (2, 3, 4) gives 42 and M = 1 gives N1 * N2.
C3_FlopWhenRepresentable ==
  \A k \in 1..Len(AllRows) :
    LET exact == ExactFlop(cfg[1], cfg[2], cfg[3])
        flop == AllRows[k].total_flop
    IN Positive(cfg) =>
         /\ (NBits(exact) <= 64 /\ ToDouble(exact) = exact) =>
              flop.kind = "int" /\ ~flop.neg /\ flop.mag = exact
         /\ NBits(exact) <= DoubleBits => flop.mag = exact
         /\ cfg = <<2, 3, 4>> => flop.mag = Wide(42)
         /\ (cfg[3] = 1 /\ NBits(WMul(Wide(cfg[1]), Wide(cfg[2]))) <= DoubleBits) =>
              flop.mag = WMul(Wide(cfg[1]), Wide(cfg[2]))

C3_Witness ==
  /\ pc = "calc_ran"
  /\ cfg = <<2, 3, 4>>
  /\ Len(bench.pt) = 1
  /\ bench.pt[1].total_flop.mag = Wide(42)

\* C7 (as claimed): run_ip / run_gemm called with M = 0 does not invoke the
\* kernel and does not append a row carrying a computed total_flop.
C7_ZeroMRejected ==
  /\ \A k \in 1..Len(calls) : calls[k].M # 0
  /\ \A k \in 1..Len(AllRows) : ParseDims(AllRows[k].dims)[3] # 0

\* C8 (as claimed): a row whose duration is zero or negative is flagged and
\* never carries a throughput computed as total_flop / duration.
C8_DegenerateDurationFlagged ==
  \A k \in 1..Len(AllRows) :
    LET row == AllRows[k]
    IN (row.dur.neg \/ IsZero(row.dur.mag)) =>
         /\ "anomaly" \in DOMAIN row
         /\ row.gflops # DDiv(row.total_flop, row.dur)

\* -------------------------------------------------------- fill harness
\* The two "omp parallel for" row loops of run_ip / run_gemm on small
\* matrices.  rng and distrib are declared outside the parallel region, so
\* the team shares them; distrib(rng) reads the engine state, advances it
\* and writes it back without synchronisation.  The unsynchronised access
\* is taken as its two halves, a load and a store, interleaved freely.

\* The engine's state space, reduced: a full-period congruential generator
\* stands for mt19937_64 (run_ip) and another for mt19937 (run_gemm).
RngMod == 16

\* rng.seed(47).
Seed == 47

RngNext(mode, s) ==
  IF mode = "ip" THEN (5 * s + 3) % RngMod ELSE (13 * s + 7) % RngMod

\* (bf16)distrib(rng): the sample narrowed to the shorter significand.
ToBf16(s) == s \div 2

\* Rows and columns of the loop nest being filled.
FillRows(p) == IF p.phase = "a" THEN p.N1 ELSE IF p.mode = "ip" THEN p.N2 ELSE p.M

FillCols(p) == IF p.phase = "a" THEN p.M ELSE IF p.mode = "ip" THEN p.M ELSE p.N2

\* Static schedule of "omp parallel for": thread t of T takes a contiguous
\* block of the R rows, the first R % T threads one row more.
FirstRow(t, R, T) ==
  IF t - 1 < R % T THEN ((R \div T) + 1) * (t - 1)
  ELSE (R \div T) * (t - 1) + (R % T)

RowCount(t, R, T) == IF t - 1 < R % T THEN (R \div T) + 1 ELSE R \div T

Team(R, T) ==
  [t \in 1..T |->
     [st |-> IF RowCount(t, R, T) = 0 THEN "idle" ELSE "load",
      row |-> FirstRow(t, R, T),
      end |-> FirstRow(t, R, T) + RowCount(t, R, T),
      col |-> 0,
      loaded |-> 0]]

\* State on entry to the first loop: both vectors value-initialised.
StartFill(mode, N1, N2, M, T) ==
  [phase |-> "a", mode |-> mode, N1 |-> N1, N2 |-> N2, M |-> M, T |-> T,
   rng |-> Seed % RngMod,
   mat_a |-> [k \in 1..(N1 * M) |-> 0],
   mat_b |-> [k \in 1..(N2 * M) |-> 0],
   thr |-> Team(N1, T)]

InitFill ==
  /\ pc = "fill"
  /\ argv = <<>>
  /\ debug = FALSE
  /\ bench = NoBench
  /\ created = <<>>
  /\ out = <<>>
  /\ calls = <<>>
  /\ kdur = 7
  /\ i = 1
  /\ j = 1
  /\ ops = 0
  /\ cfg = <<1, 1, 1>>
  /\ \E mode \in {"ip", "gemm"}, N1 \in 1..MaxDim, N2 \in 1..MaxDim,
        M \in 1..MaxDim, T \in 1..MaxThreads :
       par = StartFill(mode, N1, N2, M, T)

FillUnchanged == UNCHANGED <<pc, argv, debug, bench, created, out, calls, kdur, i, j, ops, cfg>>

\* First half of distrib(rng): the thread reads the engine state.
FillLoad(t) ==
  /\ par.phase \in {"a", "b"}
  /\ par.thr[t].st = "load"
  /\ par' = [par EXCEPT !.thr[t].loaded = par.rng, !.thr[t].st = "store"]
  /\ FillUnchanged

\* Second half: the advanced state is written back, the sample is stored
\* in the element, and the loop indices advance.
FillStore(t) ==
  /\ par.phase \in {"a", "b"}
  /\ par.thr[t].st = "store"
  /\ LET me == par.thr[t]
         s2 == RngNext(par.mode, me.loaded)
         idx == me.row * FillCols(par) + me.col + 1
         nxt == IF me.col + 1 < FillCols(par)
                THEN [me EXCEPT !.col = me.col + 1, !.st = "load"]
                ELSE IF me.row + 1 < me.end
                THEN [me EXCEPT !.row = me.row + 1, !.col = 0, !.st = "load"]
                ELSE [me EXCEPT !.st = "idle"]
     IN par' = IF par.phase = "a"
               THEN [par EXCEPT !.rng = s2, !.mat_a[idx] = ToBf16(s2), !.thr[t] = nxt]
               ELSE [par EXCEPT !.rng = s2, !.mat_b[idx] = ToBf16(s2), !.thr[t] = nxt]
  /\ FillUnchanged

\* The implicit barrier at the end of each parallel loop.
FillJoin ==
  /\ par.phase \in {"a", "b"}
  /\ \A t \in 1..par.T : par.thr[t].st = "idle"
  /\ par' = IF par.phase = "a"
            THEN [par EXCEPT !.phase = "b",
                             !.thr = Team(IF par.mode = "ip" THEN par.N2 ELSE par.M, par.T)]
            ELSE [par EXCEPT !.phase = "done"]
  /\ FillUnchanged

NextFill ==
  \/ \E t \in 1..MaxThreads : t <= par.T /\ FillLoad(t)
  \/ \E t \in 1..MaxThreads : t <= par.T /\ FillStore(t)
  \/ FillJoin

SpecFill == InitFill /\ [][NextFill]_vars

RECURSIVE Draws(_, _, _)
\* The first n elements drawn from state s by one thread alone.
Draws(mode, s, n) ==
  IF n = 0 THEN <<>>
  ELSE <<ToBf16(RngNext(mode, s))>> \o Draws(mode, RngNext(mode, s), n - 1)

\* C5 (as claimed): for fixed dimensions and seed 47 the contents of mat_a
\* and mat_b at the end of the row-fill loops are the same for every
\* number of worker threads and every interleaving: they are what a single
\* thread produces.
C5_FillDeterministic ==
  par.phase = "done" =>
    LET all == Draws(par.mode, Seed % RngMod, par.N1 * par.M + par.N2 * par.M)
    IN /\ par.mat_a = SubSeq(all, 1, par.N1 * par.M)
       /\ par.mat_b = SubSeq(all, par.N1 * par.M + 1, par.N1 * par.M + par.N2 * par.M)

====
